---- MODULE Spec2Model ----
(***************************************************************************)
(* lightweight-mmap: file handles that own a native descriptor, and        *)
(* memory mappings of byte ranges of the file behind a handle.             *)
(*                                                                         *)
(* The model has the descriptor table, the handle objects (a bare handle   *)
(* is a reference-counted handle with one owner), the native mapped        *)
(* regions, the Windows file-mapping objects and the mapping objects the   *)
(* library hands out.  Offsets and lengths are machine words of WordBits   *)
(* bits; addresses are naturals.                                           *)
(***************************************************************************)
EXTENDS Integers, Sequences, FiniteSets, TLC

(* ------------------------------ bounds -------------------------------- *)
WordBits == 4
MaxShift == 2
MaxFile == 6
VaLimit == 8
MaxHandles == 1
MaxMaps == 2
MaxRefs == 2
MaxOpens == 2
MaxThreads == 2

(* --------------------------- machine words ---------------------------- *)
RECURSIVE Pow2(_)
Pow2(n) == IF n = 0 THEN 1 ELSE 2 * Pow2(n - 1)

WordMod == Pow2(WordBits)
WordMax == WordMod - 1
Words == 0..WordMax

Wrap(x) == (x + WordMod) % WordMod

\* the value of `x as i64` is negative
IsNegative(x) == x >= Pow2(WordBits - 1)

RECURSIVE BitAnd(_, _)
BitAnd(a, b) ==
    IF a = 0 \/ b = 0 THEN 0
    ELSE (a % 2) * (b % 2) + 2 * BitAnd(a \div 2, b \div 2)

BitNot(a) == WordMax - a

(* --------------------------- native sentinels ------------------------- *)
NULL == 0
\* NonNull::<c_void>::dangling(): the alignment of c_void
DANGLING == 1
INVALID_HANDLE_VALUE == 0

Unix == {"linux", "freebsd", "macos"}
OSes == Unix \cup {"windows"}
Granularities == {Pow2(k) : k \in 0..MaxShift}

\* where the kernel places the k-th native region
RegionBase(k) == k * 2 * VaLimit

VARIABLES
    os,              \* build target
    trim,            \* feature trim-file-lengths
    overflow_checks, \* debug build: arithmetic overflow panics
    sysGran,         \* what the system reports as its allocation granularity
    granCache,       \* SYSTEM_ALLOCATION_GRANULARITY
    file,            \* the file at the path: [exists, data]
    fds,             \* native descriptors ever returned by open
    handles,         \* file handle objects
    mapObjs,         \* Windows file-mapping objects ever created
    regions,         \* native mapped regions ever created
    maps,            \* mapping objects (borrowed and owned)
    cp,              \* create_preallocated call in progress
    threads,         \* per thread: the call it is inside, what it owns and borrows
    last             \* outcome of the last completed call

envVars == <<os, trim, overflow_checks, sysGran>>
vars == <<os, trim, overflow_checks, sysGran, granCache, file, fds, handles,
          mapObjs, regions, maps, cp, threads, last>>

(* ------------------------------ files --------------------------------- *)
\* byte i (0-based) of the initial file content
InitialByte(i) == 101 + i
InitialData(n) == [i \in 1..n |-> InitialByte(i - 1)]

FileSize == Len(file.data)
\* what a read of file byte k (0-based) returns; the tail of the last page reads 0
FileByte(k) == IF k < FileSize THEN file.data[k + 1] ELSE 0

\* outcome of a call: op, Ok/Err, the error kind and the code it carries, the
\* number of native mapping calls it issued, its (offset, len) arguments,
\* whether it got to the alignment arithmetic and what that computed
\* (aligned_offset, offset_adjustment, adjusted_len), the mapping object or
\* descriptor it produced, the native call that failed and the code that call
\* reported, the size argument, the byte read or written, the advice flags
\* passed and the native hint calls issued
NoCall == [op |-> "none", ok |-> TRUE, err |-> "", code |-> "", calls |-> 0,
           off |-> 0, len |-> 0, aligning |-> FALSE, aligned |-> 0, adj |-> 0,
           adjusted |-> 0, m |-> 0, fd |-> 0,
           call |-> "", reported |-> "", size |-> 0, byte |-> 0,
           flags |-> {}, hints |-> {}]
Outcome(op, ok, err, code) == [NoCall EXCEPT !.op = op, !.ok = ok, !.err = err, !.code = code]
IdleCp == [pc |-> "idle", fd |-> 0, size |-> 0, err |-> "", code |-> "",
           call |-> "", reported |-> ""]

\* the native call `call` returned its failure value and reported `code`
Failed(outcome, op, call, code) ==
    [outcome EXCEPT !.op = op, !.call = call, !.reported = code]

\* (fault) an open error that drops the native code
failed_to_open_file_handle_nocode(err_code) ==
    Outcome("", FALSE, "FailedToOpenFileHandle", "")
\* HandleOpenError::failed_to_open_file_handle_unix / failed_to_open_file_handle
failed_to_open_file_handle(err_code) ==
    Outcome("", FALSE, "FailedToOpenFileHandle", err_code)
\* HandleOpenError::FailedToGetFileSize(code)
failed_to_get_file_size(err_code) == Outcome("", FALSE, "FailedToGetFileSize", err_code)
\* HandleOpenError::failed_to_set_file_size
failed_to_set_file_size(err_code) == Outcome("", FALSE, "FailedToSetFileSize", err_code)
\* (fault) a mapping error that drops the native code
failed_to_map_memory_nocode(error_code) == Outcome("", FALSE, "FailedToMapMemory", "")
\* MmapError::failed_to_map_memory_unix / failed_to_map_memory
failed_to_map_memory(error_code) == Outcome("", FALSE, "FailedToMapMemory", error_code)

OpenErrnos == {"ENOENT", "EACCES"}
StatErrnos == {"EIO"}
ResizeErrnos == {"ENOSPC", "EOPNOTSUPP"}
MapErrnos == {"ENOMEM"}

(* ------------------------------ handles ------------------------------- *)
\* (fault) a CreateFileW that shares nothing
ShareMode_exclusive == {}
\* the share mode open_with_access passes to CreateFileW:
\* FILE_SHARE_READ | FILE_SHARE_WRITE | FILE_SHARE_DELETE
ShareMode == {"READ", "WRITE", "DELETE"}
\* GENERIC_READ, or GENERIC_READ | GENERIC_WRITE
DesiredAccess(rw) == IF rw THEN {"READ", "WRITE"} ELSE {"READ"}

\* a descriptor as open() / CreateFileW returned it
NewFd(rw) == [open |-> TRUE, closes |-> 0, rw |-> rw, share |-> ShareMode]

\* CreateFileW fails with a sharing violation unless every open handle of
\* the file shares the access asked for and the share mode asked for covers
\* the access every open handle has; Unix has no such rule
SharingPermits(F, rw) ==
    os = "windows" =>
        \A fd \in 1..Len(F) :
            F[fd].open => /\ DesiredAccess(rw) \subseteq F[fd].share
                          /\ DesiredAccess(F[fd].rw) \subseteq ShareMode
\* the code the failed native open reports
open_errno(F, rw, code) ==
    IF SharingPermits(F, rw) THEN code ELSE "ERROR_SHARING_VIOLATION"

\* InnerHandle { fd } / InnerHandle { handle, mapping }, held by one owner
NewHandle(fd, rw) ==
    [fd |-> fd, rw |-> rw, strong |-> 1, refs |-> 1,
     mapping |-> INVALID_HANDLE_VALUE, alive |-> TRUE]

\* close(fd) / CloseHandle(handle)
close(F, fd) == [F EXCEPT ![fd].open = FALSE, ![fd].closes = @ + 1]

\* (fault) a file-mapping object closed as soon as the view is obtained
NewMapObj_closed(h) == [h |-> h, open |-> FALSE, closes |-> 1, fileOpen |-> TRUE]
\* the file-mapping object create_view gets from CreateFileMappingW and
\* stores in *mapping, the cell of the file handle
NewMapObj(h) == [h |-> h, open |-> TRUE, closes |-> 0, fileOpen |-> TRUE]

\* CloseHandle(mapping) on a file-mapping object
CloseMapping(M, k) == [M EXCEPT ![k].open = FALSE, ![k].closes = @ + 1]

\* (fault) a handle whose drop does not close the descriptor
InnerHandle_drop_fds_noclose(F, hd) == F
\* Drop for InnerHandle: Unix closes the descriptor; Windows first closes the
\* cached file-mapping object if there is one, then the file handle
InnerHandle_drop_fds(F, hd) == close(F, hd.fd)
\* (fault) a drop that closes the file handle before the mapping object
InnerHandle_drop_mapObjs_late(M, hd) ==
    IF os = "windows" /\ hd.mapping # INVALID_HANDLE_VALUE
    THEN [CloseMapping(M, hd.mapping) EXCEPT ![hd.mapping].fileOpen = FALSE]
    ELSE M
\* fileOpen: whether the file handle is open when CloseHandle(mapping) runs
InnerHandle_drop_mapObjs(M, hd) ==
    IF os = "windows" /\ hd.mapping # INVALID_HANDLE_VALUE
    THEN [CloseMapping(M, hd.mapping) EXCEPT ![hd.mapping].fileOpen = fds[hd.fd].open]
    ELSE M

\* open_with_flags / open_with_access: the native open fails when the file is
\* missing and creation was not asked for, and may fail for other reasons
NativeOpenCanSucceed(create) == file.exists \/ create

\* Drop of one Arc<..FileHandle> (or of the bare handle, the only owner):
\* the handle is destroyed when the last strong reference goes
Arc_drop_handles(H, h) ==
    [H EXCEPT ![h].strong = @ - 1, ![h].alive = (H[h].strong - 1 > 0)]
Arc_drop_fds(F, H, h) ==
    IF H[h].strong - 1 > 0 THEN F ELSE InnerHandle_drop_fds(F, H[h])
Arc_drop_mapObjs(M, H, h) ==
    IF H[h].strong - 1 > 0 THEN M ELSE InnerHandle_drop_mapObjs(M, H[h])

Arc_drop(H, h) ==
    /\ handles' = Arc_drop_handles(H, h)
    /\ fds' = Arc_drop_fds(fds, H, h)
    /\ mapObjs' = Arc_drop_mapObjs(mapObjs, H, h)

LiveBorrowed(h) == {k \in 1..Len(maps) : maps[k].h = h /\ ~maps[k].owned /\ maps[k].st = "live"}

\* what borrows handle h for 'a: the live borrowed mappings, and the slices
\* of lifetime 'a that came from a borrowed mapping
Borrowers(h) ==
    {k \in 1..Len(maps) :
        maps[k].h = h /\ ~maps[k].owned /\ (maps[k].st = "live" \/ maps[k].slices > 0)}

\* ReadOnlyFileHandle::open / ReadWriteFileHandle::open
Open(rw) ==
    /\ \E ok \in BOOLEAN, code \in OpenErrnos :
         IF ok /\ NativeOpenCanSucceed(FALSE) /\ SharingPermits(fds, rw)
         THEN /\ fds' = Append(fds, NewFd(rw))
              /\ handles' = Append(handles, NewHandle(Len(fds) + 1, rw))
              /\ last' = [Outcome("open", TRUE, "", "") EXCEPT !.fd = Len(fds) + 1]
         ELSE /\ last' = Failed(failed_to_open_file_handle(open_errno(fds, rw, code)),
                                "open", "open", open_errno(fds, rw, code))
              /\ UNCHANGED <<fds, handles>>
    /\ UNCHANGED <<envVars, threads, granCache, file, mapObjs, regions, maps, cp>>

\* Arc::clone of a handle reference the caller holds
CloneRef(h) ==
    /\ h \in 1..Len(handles)
    /\ handles[h].refs >= 1
    /\ handles[h].strong < MaxRefs
    /\ handles' = [handles EXCEPT ![h].refs = @ + 1, ![h].strong = @ + 1]
    /\ UNCHANGED <<envVars, threads, granCache, file, fds, mapObjs, regions, maps, cp, last>>

\* (fault) a mapping type without the lifetime that ties it to the handle
CanGiveUpRef_unchecked(h) == handles[h].refs >= 1
\* the borrow checker: a handle reference that a live borrowed mapping
\* borrows cannot be moved or dropped, so one reference must stay
CanGiveUpRef(h) ==
    /\ handles[h].refs >= 1
    /\ Borrowers(h) # {} => handles[h].refs >= 2

\* drop of a handle variable the caller holds
DropRef(h) ==
    /\ h \in 1..Len(handles)
    /\ CanGiveUpRef(h)
    /\ Arc_drop([handles EXCEPT ![h].refs = @ - 1], h)
    /\ UNCHANGED <<envVars, threads, granCache, file, regions, maps, cp, last>>

(* ------------------------------ threads ------------------------------- *)
Threads == 1..MaxThreads
\* the thread that opens the handles
MainThread == 1
\* a thread outside every call: pc is its position inside
\* get_allocation_granularity or create_view, cached and size the locals of
\* the former, ret the value returned, h the handle create_view works on and
\* obj its local `map`; owns the handles moved into it, shares the handles
\* it holds a & reference to
IdleThread == [pc |-> "idle", cached |-> 0, size |-> 0, ret |-> 0,
               owns |-> {}, shares |-> {}, h |-> 0, obj |-> 0]

\* unsafe impl Sync for InnerHandle {} / unsafe impl Send for InnerHandle {}
InnerHandle_Sync == TRUE
InnerHandle_Send == TRUE
\* the auto traits of struct { inner: InnerHandle }: the type is Sync when
\* its one field is, there being no negative impl and no !Sync marker field
FileHandle_Sync(rw) == InnerHandle_Sync
\* unsafe impl Send for ReadOnlyFileHandle {}; ReadWriteFileHandle by its field
FileHandle_Send(rw) == IF rw THEN InnerHandle_Send ELSE TRUE

\* the thread that owns handle h
Owner(h) ==
    IF \E t \in Threads : h \in threads[t].owns
    THEN CHOOSE t \in Threads : h \in threads[t].owns
    ELSE MainThread
Sharers(h) == {t \in Threads : h \in threads[t].shares}
\* the threads that can call methods of handle h now
Accessors(h) == {Owner(h)} \cup Sharers(h)

\* the owner moves the handle into thread t: T must be Send, and a borrowed
\* value cannot be moved
Handle_send(h, t) ==
    /\ h \in 1..Len(handles) /\ handles[h].alive
    /\ FileHandle_Send(handles[h].rw)
    /\ t # Owner(h)
    /\ Sharers(h) = {} /\ Borrowers(h) = {}
    /\ threads' = [u \in Threads |->
                     [threads[u] EXCEPT !.owns = IF u = t THEN @ \cup {h} ELSE @ \ {h}]]
    /\ UNCHANGED <<envVars, granCache, file, fds, handles, mapObjs, regions, maps, cp, last>>

\* a scoped thread t captures &handle: &T is Send exactly when T is Sync
Handle_share(h, t) ==
    /\ h \in 1..Len(handles) /\ handles[h].alive
    /\ FileHandle_Sync(handles[h].rw)
    /\ t # Owner(h) /\ t \notin Sharers(h)
    /\ threads' = [threads EXCEPT ![t].shares = @ \cup {h}]
    /\ UNCHANGED <<envVars, granCache, file, fds, handles, mapObjs, regions, maps, cp, last>>

\* the scoped thread ends
Handle_unshare(h, t) ==
    /\ t \in Sharers(h)
    /\ threads' = [threads EXCEPT ![t].shares = @ \ {h}]
    /\ UNCHANGED <<envVars, granCache, file, fds, handles, mapObjs, regions, maps, cp, last>>

(* ------------------------------ mappings ------------------------------ *)
\* get_allocation_granularity: the cached value, or the queried one
get_allocation_granularity == IF granCache # 0 THEN granCache ELSE sysGran

\* sysconf(_SC_PAGESIZE) / GetSystemInfo().dwAllocationGranularity
query_allocation_granularity == sysGran
\* (fault) a load that is returned whatever it read
cache_hit_always(cached) == TRUE
\* if cached != 0 { return cached; }
cache_hit(cached) == cached # 0

\* get_allocation_granularity step by step, as thread t runs it:
\* let cached = SYSTEM_ALLOCATION_GRANULARITY.load(Relaxed), and the early return
Gran_load(t) ==
    /\ threads[t].pc = "idle"
    /\ threads' = [threads EXCEPT
                     ![t].cached = granCache,
                     ![t].pc = IF cache_hit(granCache) THEN "done" ELSE "query",
                     ![t].ret = IF cache_hit(granCache) THEN granCache ELSE @]
    /\ UNCHANGED <<envVars, granCache, file, fds, handles, mapObjs, regions, maps, cp, last>>

\* let size = query_allocation_granularity()
Gran_query(t) ==
    /\ threads[t].pc = "query"
    /\ threads' = [threads EXCEPT ![t].size = query_allocation_granularity,
                                  ![t].pc = "store"]
    /\ UNCHANGED <<envVars, granCache, file, fds, handles, mapObjs, regions, maps, cp, last>>

\* SYSTEM_ALLOCATION_GRANULARITY.store(size, Relaxed); size
Gran_store(t) ==
    /\ threads[t].pc = "store"
    /\ granCache' = threads[t].size
    /\ threads' = [threads EXCEPT ![t].ret = threads[t].size, ![t].pc = "done"]
    /\ UNCHANGED <<envVars, file, fds, handles, mapObjs, regions, maps, cp, last>>

\* the call returns to thread t's caller
Gran_return(t) ==
    /\ threads[t].pc = "done"
    /\ last' = [Outcome("get_allocation_granularity", TRUE, "", "") EXCEPT
                  !.m = t, !.size = threads[t].ret]
    /\ threads' = [threads EXCEPT ![t].pc = "idle", ![t].cached = 0,
                                  ![t].size = 0, ![t].ret = 0]
    /\ UNCHANGED <<envVars, granCache, file, fds, handles, mapObjs, regions, maps, cp>>

\* (fault) a trim that does not clamp len to what is left of the file
adjust_len_to_file_size_unclamped(sizeOk, file_size, offset, len) ==
    IF ~sizeOk THEN [ok |-> FALSE, len |-> 0]
    ELSE IF offset >= file_size THEN [ok |-> TRUE, len |-> 0]
    ELSE [ok |-> TRUE, len |-> len]
\* (fault) a trim that ignores a failed size query and keeps len
adjust_len_to_file_size_infallible(sizeOk, file_size, offset, len) ==
    IF ~sizeOk THEN [ok |-> TRUE, len |-> len]
    ELSE IF offset >= file_size THEN [ok |-> TRUE, len |-> 0]
    ELSE LET remaining == file_size - offset
         IN [ok |-> TRUE, len |-> IF remaining < len THEN remaining ELSE len]
\* adjust_len_to_file_size(handle.size(), offset, len)
adjust_len_to_file_size(sizeOk, file_size, offset, len) ==
    IF ~sizeOk THEN [ok |-> FALSE, len |-> 0]
    ELSE IF offset >= file_size THEN [ok |-> TRUE, len |-> 0]
    ELSE LET remaining == file_size - offset
         IN [ok |-> TRUE, len |-> IF remaining < len THEN remaining ELSE len]

\* (fault) a mask that is off by one: !(page_size) for !(page_size - 1)
aligned_offset_unmasked(offset, page_size) == BitAnd(offset, BitNot(Wrap(page_size)))
\* the alignment arithmetic of create_mmap / create_view
aligned_offset(offset, page_size) == BitAnd(offset, BitNot(Wrap(page_size - 1)))
offset_adjustment(offset, page_size) == offset - aligned_offset(offset, page_size)
adjusted_len(len, adjustment) == len + adjustment

\* the pointer a zero-length mapping carries
EmptyPtr == IF os \in Unix THEN DANGLING ELSE NULL

\* CreateFileMappingW(handle, .., 0, 0, ..): an empty file cannot be mapped
CanCreateFileMapping(hd) == fds[hd.fd].open /\ FileSize > 0

\* mmap / mmap64 on Unix, MapViewOfFile on Windows: when the call can succeed
NativeCanMap(hd, aligned, length) ==
    /\ length > 0
    /\ length <= VaLimit
    /\ aligned % sysGran = 0
    /\ IF os \in Unix
       THEN fds[hd.fd].open /\ ~IsNegative(aligned)
       ELSE aligned + length <= FileSize

NewRegion(hd, aligned, length) ==
    [fd |-> hd.fd, foff |-> aligned, len |-> length,
     base |-> RegionBase(Len(regions) + 1), mapped |-> TRUE, unmaps |-> 0]

\* ReadOnlyMmap / ReadWriteMmap { inner: { ptr, length }, offset_adjustment, length };
\* slices: the slices as_slice has handed out that the caller still holds
NewMmap(h, owned, ptr, adjustment, length, region, offset, len) ==
    [h |-> h, owned |-> owned, st |-> "live",
     ptr |-> ptr, inner_length |-> length,
     offset_adjustment |-> adjustment, length |-> length,
     region |-> region, off |-> offset, req |-> len, unmaps |-> 0,
     slices |-> 0]

\* (fault) data() that forgets the offset adjustment
Mmap_data_unadjusted(m) == m.ptr
\* ReadOnlyMmap::data / ReadWriteMmap::data
Mmap_data(m) == m.ptr + m.offset_adjustment
\* (fault) len() that reports the whole native length
Mmap_len_total(m) == m.length
\* ReadOnlyMmap::len / ReadWriteMmap::len
Mmap_len(m) == Wrap(m.length - m.offset_adjustment)
\* ReadOnlyMmap::is_empty / ReadWriteMmap::is_empty
Mmap_is_empty(m) == Mmap_len(m) = 0

\* (fault) an Owned Mapping that does not keep the Arc it was given
Owned_strong_unheld(hd, mv, success) == IF mv THEN hd.strong - 1 ELSE hd.strong
\* the strong references an Owned Mapping constructor leaves behind: it takes
\* an Arc by value (moved in, or a clone made for the call) and keeps it in
\* the new object on success, drops it on failure
Owned_refs(hd, mv) == IF mv THEN hd.refs - 1 ELSE hd.refs
Owned_strong(hd, mv, success) ==
    IF success
    THEN (IF mv THEN hd.strong ELSE hd.strong + 1)
    ELSE (IF mv THEN hd.strong - 1 ELSE hd.strong)

\* ReadOnlyMmap::new / ReadWriteMmap::new, and OwnedReadOnlyMmap::new /
\* OwnedReadWriteMmap::new around them
Construct(h, offset, len, owned, mv) ==
    /\ h \in 1..Len(handles)
    /\ handles[h].alive /\ handles[h].refs >= 1
    /\ Len(maps) < MaxMaps
    /\ mv => owned /\ CanGiveUpRef(h)
    /\ \E sizeOk, objOk, mapOk \in BOOLEAN, code \in MapErrnos, scode \in StatErrnos :
        LET hd == handles[h]
            sizeFailed == trim /\ ~sizeOk
            t == IF trim THEN adjust_len_to_file_size(sizeOk, FileSize, offset, len)
                 ELSE [ok |-> TRUE, len |-> len]
            n == t.len
            nonEmpty == t.ok /\ n > 0
            needObj == nonEmpty /\ os = "windows" /\ hd.mapping = INVALID_HANDLE_VALUE
            objMade == needObj /\ objOk /\ CanCreateFileMapping(hd)
            objFail == needObj /\ ~objMade
            M1 == IF objMade
                  THEN Append(mapObjs, NewMapObj(h))
                  ELSE mapObjs
            H1 == IF objMade
                  THEN [handles EXCEPT ![h].mapping = Len(mapObjs) + 1]
                  ELSE handles
            aligning == nonEmpty /\ ~objFail
            page_size == get_allocation_granularity
            aligned == aligned_offset(offset, page_size)
            adjustment == offset_adjustment(offset, page_size)
            sum == adjusted_len(n, adjustment)
            panicked == aligning /\ sum > WordMax /\ overflow_checks
            called == aligning /\ ~panicked
            mapped == called /\ mapOk /\ NativeCanMap(H1[h], aligned, Wrap(sum))
            success == t.ok /\ (n = 0 \/ mapped)
            m == IF n = 0
                 THEN NewMmap(h, owned, EmptyPtr, 0, 0, 0, offset, len)
                 ELSE NewMmap(h, owned, RegionBase(Len(regions) + 1), adjustment,
                              Wrap(sum), Len(regions) + 1, offset, len)
            H2 == IF owned
                  THEN [H1 EXCEPT ![h].refs = Owned_refs(hd, mv),
                                   ![h].strong = Owned_strong(hd, mv, success),
                                   ![h].alive = Owned_strong(hd, mv, success) > 0]
                  ELSE H1
            destroyed == owned /\ Owned_strong(hd, mv, success) = 0
            native == IF objFail THEN "CreateFileMappingW"
                      ELSE IF os \in Unix THEN "mmap" ELSE "MapViewOfFile"
            outcome ==
                IF success THEN [Outcome("mmap_new", TRUE, "", "") EXCEPT !.m = Len(maps) + 1]
                ELSE IF ~t.ok THEN Outcome("mmap_new", FALSE, "FailedToGetFileSize", "")
                ELSE IF panicked THEN Outcome("mmap_new", FALSE, "panic", "")
                ELSE Failed(failed_to_map_memory(code), "mmap_new", native, code)
            result ==
                IF sizeFailed THEN Failed(outcome, "mmap_new", "get_file_size", scode)
                ELSE outcome
        IN  /\ granCache' = IF aligning THEN page_size ELSE granCache
            /\ regions' = IF mapped THEN Append(regions, NewRegion(hd, aligned, Wrap(sum)))
                          ELSE regions
            /\ maps' = IF success THEN Append(maps, m) ELSE maps
            /\ handles' = H2
            /\ mapObjs' = IF destroyed THEN InnerHandle_drop_mapObjs(M1, H1[h]) ELSE M1
            /\ fds' = IF destroyed THEN InnerHandle_drop_fds(fds, H1[h]) ELSE fds
            /\ last' = [result EXCEPT !.off = offset, !.len = len,
                                      !.calls = (IF needObj THEN 1 ELSE 0)
                                                + (IF called THEN 1 ELSE 0),
                                      !.aligning = aligning,
                                      !.aligned = IF aligning THEN aligned ELSE 0,
                                      !.adj = IF aligning THEN adjustment ELSE 0,
                                      !.adjusted = IF called THEN Wrap(sum) ELSE 0]
    /\ UNCHANGED <<envVars, threads, file, cp>>

\* ReadOnlyMmap::new / ReadWriteMmap::new on a handle the caller borrows
Mmap_new(h, offset, len) == Construct(h, offset, len, FALSE, FALSE)

\* OwnedReadOnlyMmap::new / OwnedReadWriteMmap::new; mv: the caller's own
\* reference is moved in (as from_handle does), otherwise a clone of it
Owned_new(h, offset, len, mv) == Construct(h, offset, len, TRUE, mv)

\* OwnedReadOnlyMmap::handle / OwnedReadWriteMmap::handle
Owned_handle(k) ==
    /\ k \in 1..Len(maps)
    /\ maps[k].owned /\ maps[k].st = "live"
    /\ handles[maps[k].h].strong < MaxRefs
    /\ handles' = [handles EXCEPT ![maps[k].h].refs = @ + 1, ![maps[k].h].strong = @ + 1]
    /\ UNCHANGED <<envVars, threads, granCache, file, fds, mapObjs, regions, maps, cp, last>>

\* Drop for ReadOnlyMmapInner / ReadWriteMmapInner: munmap(ptr, length) or
\* UnmapViewOfFile(ptr) unless the pointer is null
MmapInner_unmaps(m) == m.ptr # NULL
MmapInner_drop_regions(R, m) ==
    IF MmapInner_unmaps(m) /\ m.region # 0
    THEN [R EXCEPT ![m.region].mapped = FALSE, ![m.region].unmaps = @ + 1]
    ELSE R
MmapInner_drop(k) ==
    /\ maps' = [maps EXCEPT ![k].st = "dropped",
                            ![k].unmaps = @ + (IF MmapInner_unmaps(maps[k]) THEN 1 ELSE 0)]
    /\ regions' = MmapInner_drop_regions(regions, maps[k])

\* ReadOnlyMmap::as_slice(&self) -> &[u8] borrows the mapping object;
\* ReadWriteMmap::as_slice(&self) -> &'a [u8] carries the lifetime parameter
\* of the mapping type instead: the handle borrow, or 'static behind an
\* Owned Mapping
SliceBorrowsMapping(m) == ~handles[m.h].rw
\* the borrow checker: a borrowed object cannot be dropped
CanDropMapping(m) == SliceBorrowsMapping(m) => m.slices = 0

\* #[derive(Clone)] on ReadOnlyMmap / ReadWriteMmap and on their inner
\* structs: the clone is a field-by-field copy, raw pointer included
Mmap_clone(k) ==
    /\ k \in 1..Len(maps)
    /\ ~maps[k].owned /\ maps[k].st = "live"
    /\ Len(maps) < MaxMaps
    /\ maps' = Append(maps, [maps[k] EXCEPT !.unmaps = 0, !.slices = 0])
    /\ last' = [Outcome("clone", TRUE, "", "") EXCEPT !.m = Len(maps) + 1]
    /\ UNCHANGED <<envVars, threads, granCache, file, fds, handles, mapObjs, regions, cp>>

\* drop of a borrowed mapping
Mmap_drop(k) ==
    /\ k \in 1..Len(maps)
    /\ ~maps[k].owned /\ maps[k].st = "live"
    /\ CanDropMapping(maps[k])
    /\ MmapInner_drop(k)
    /\ UNCHANGED <<envVars, threads, granCache, file, fds, handles, mapObjs, cp, last>>

\* OwnedReadOnlyMmap::new(handle.clone(), offset, len) with len > 0 run by
\* thread t on Windows, create_view step by step. The thread gets its own Arc.
View_begin(t, h, offset, len) ==
    /\ os = "windows" /\ len > 0
    /\ threads[t].pc = "idle"
    /\ h \in 1..Len(handles) /\ handles[h].alive /\ handles[h].refs >= 1
    /\ Len(maps) + Cardinality({u \in Threads : threads[u].pc # "idle"}) < MaxMaps
    /\ handles' = [handles EXCEPT ![h].strong = @ + 1]
    /\ threads' = [threads EXCEPT ![t].pc = "check", ![t].h = h, ![t].obj = 0]
    /\ last' = [Outcome("view_begin", TRUE, "", "") EXCEPT !.off = offset, !.len = len]
    /\ UNCHANGED <<envVars, granCache, file, fds, mapObjs, regions, maps, cp>>

\* if *mapping == INVALID_HANDLE_VALUE
View_check(t) ==
    /\ threads[t].pc = "check"
    /\ threads' = [threads EXCEPT
                     ![t].pc = IF handles[threads[t].h].mapping = INVALID_HANDLE_VALUE
                               THEN "create" ELSE "map"]
    /\ UNCHANGED <<envVars, granCache, file, fds, handles, mapObjs, regions, maps, cp, last>>

\* let map = CreateFileMappingW(..); if map.is_null() { return Err(..) }
View_create(t) ==
    /\ threads[t].pc = "create"
    /\ \E objOk \in BOOLEAN, code \in MapErrnos :
         LET h == threads[t].h
         IN  IF objOk /\ CanCreateFileMapping(handles[h])
             THEN /\ mapObjs' = Append(mapObjs, NewMapObj(h))
                  /\ threads' = [threads EXCEPT ![t].pc = "store",
                                                ![t].obj = Len(mapObjs) + 1]
                  /\ UNCHANGED <<fds, handles, last>>
             ELSE /\ Arc_drop(handles, h)
                  /\ threads' = [threads EXCEPT ![t].pc = "idle", ![t].h = 0]
                  /\ last' = Failed(failed_to_map_memory(code), "mmap_new",
                                    "CreateFileMappingW", code)
    /\ UNCHANGED <<envVars, granCache, file, regions, maps, cp>>

\* *mapping = map
View_store(t) ==
    /\ threads[t].pc = "store"
    /\ handles' = [handles EXCEPT ![threads[t].h].mapping = threads[t].obj]
    /\ threads' = [threads EXCEPT ![t].pc = "map"]
    /\ UNCHANGED <<envVars, granCache, file, fds, mapObjs, regions, maps, cp, last>>

\* MapViewOfFile(*mapping, ..) and the return into OwnedReadOnlyMmap::new
View_map(t, offset, len) ==
    /\ threads[t].pc = "map"
    /\ \E mapOk \in BOOLEAN, code \in MapErrnos :
         LET h == threads[t].h
             page_size == get_allocation_granularity
             aligned == aligned_offset(offset, page_size)
             adjustment == offset_adjustment(offset, page_size)
             sum == Wrap(adjusted_len(len, adjustment))
         IN  /\ granCache' = page_size
             /\ IF mapOk /\ NativeCanMap(handles[h], aligned, sum)
                THEN /\ regions' = Append(regions, NewRegion(handles[h], aligned, sum))
                     /\ maps' = Append(maps,
                                   NewMmap(h, TRUE, RegionBase(Len(regions) + 1), adjustment,
                                           sum, Len(regions) + 1, offset, len))
                     /\ last' = [Outcome("mmap_new", TRUE, "", "") EXCEPT
                                   !.m = Len(maps) + 1, !.off = offset, !.len = len]
                     /\ UNCHANGED <<fds, handles, mapObjs>>
                ELSE /\ Arc_drop(handles, h)
                     /\ last' = Failed(failed_to_map_memory(code), "mmap_new",
                                       "MapViewOfFile", code)
                     /\ UNCHANGED <<regions, maps>>
    /\ threads' = [threads EXCEPT ![t].pc = "idle", ![t].h = 0, ![t].obj = 0]
    /\ UNCHANGED <<envVars, file, cp>>

\* drop of an Owned Mapping, field by field in declaration order:
\* first `handle`, the Arc
Owned_drop_handle(k) ==
    /\ k \in 1..Len(maps)
    /\ maps[k].owned /\ maps[k].st = "live"
    /\ CanDropMapping(maps[k])
    /\ Arc_drop(handles, maps[k].h)
    /\ maps' = [maps EXCEPT ![k].st = "handle_dropped"]
    /\ UNCHANGED <<envVars, threads, granCache, file, regions, cp, last>>

\* then `mmap`
Owned_drop_mmap(k) ==
    /\ k \in 1..Len(maps)
    /\ maps[k].owned /\ maps[k].st = "handle_dropped"
    /\ MmapInner_drop(k)
    /\ UNCHANGED <<envVars, threads, granCache, file, fds, handles, mapObjs, cp, last>>

(* ------------------------- create_preallocated ------------------------ *)
ZeroFill(n) == [i \in 1..n |-> 0]
\* (fault) a resize that gives a fresh file of the new size
Resized_fresh(data, size) == ZeroFill(size)
\* a file of Len(data) bytes set to `size` bytes: cut, or extended with bytes
\* that read as zero
Resized(data, size) ==
    IF size <= Len(data) THEN SubSeq(data, 1, size)
    ELSE data \o ZeroFill(size - Len(data))

\* what the native call does to the file: fallocate / posix_fallocate reserve
\* up to `size` and never shrink; ftruncate and SetEndOfFile (after
\* SetFilePointer to `size`) set the length
NativeResize(call, data, size) ==
    IF call = "none" THEN data
    ELSE IF call \in {"fallocate", "posix_fallocate"}
         THEN (IF size > Len(data) THEN Resized(data, size) ELSE data)
         ELSE Resized(data, size)

\* (fault) a set_file_size that only ever grows
set_file_size_call_growonly(current_size, size) ==
    IF os = "windows" THEN "SetEndOfFile"
    ELSE IF size > current_size
         THEN (IF os = "linux" THEN "fallocate"
               ELSE IF os = "freebsd" THEN "posix_fallocate"
               ELSE "ftruncate")
         ELSE "none"
\* set_file_size(fd, size): which native call resizes, if any
\* Unix: fstat, then fallocate / posix_fallocate / ftruncate to grow and
\* ftruncate to shrink; Windows: SetFilePointer + SetEndOfFile
set_file_size_call(current_size, size) ==
    IF os = "windows" THEN "SetEndOfFile"
    ELSE IF size > current_size
         THEN (IF os = "linux" THEN "fallocate"
               ELSE IF os = "freebsd" THEN "posix_fallocate"
               ELSE "ftruncate")
         ELSE IF size < current_size THEN "ftruncate"
         ELSE "none"

\* the native calls set_file_size makes, each of which can fail
set_file_size_calls(current_size, size) ==
    IF os = "windows" THEN {"SetFilePointer", "SetEndOfFile"}
    ELSE {"fstat"} \cup ({set_file_size_call(current_size, size)} \ {"none"})

\* the codes a native call can report
NativeErrnos(call) == IF call = "fstat" THEN StatErrnos ELSE ResizeErrnos

\* the error set_file_size returns when `call` fails: `get_file_size(fd)?`
\* passes its own error on, every other call gives failed_to_set_file_size
set_file_size_error(call, code) ==
    IF call = "fstat" THEN failed_to_get_file_size(code)
    ELSE failed_to_set_file_size(code)

\* InnerHandle::create_preallocated, step 1: open_with_flags(O_RDWR | O_CREAT)
\* or open_with_access(.., OPEN_ALWAYS)
Cp_open(size) ==
    /\ cp.pc = "idle"
    /\ Len(fds) < MaxHandles
    /\ \E ok \in BOOLEAN, code \in OpenErrnos :
         IF ok /\ NativeOpenCanSucceed(TRUE) /\ SharingPermits(fds, TRUE)
         THEN /\ fds' = Append(fds, NewFd(TRUE))
              /\ file' = IF file.exists THEN file ELSE [exists |-> TRUE, data |-> <<>>]
              /\ cp' = [IdleCp EXCEPT !.pc = "resize", !.fd = Len(fds) + 1, !.size = size]
              /\ UNCHANGED last
         ELSE /\ last' = [Failed(failed_to_open_file_handle(open_errno(fds, TRUE, code)),
                                   "create_preallocated", "open",
                                   open_errno(fds, TRUE, code))
                            EXCEPT !.size = size]
              /\ UNCHANGED <<fds, file, cp>>
    /\ UNCHANGED <<envVars, threads, granCache, handles, mapObjs, regions, maps>>

\* step 2: set_file_size(fd, size); on success the handle is returned
Cp_resize ==
    /\ cp.pc = "resize"
    /\ \E ok \in BOOLEAN, call \in set_file_size_calls(FileSize, cp.size) :
        \E code \in NativeErrnos(call) :
            IF ok
            THEN /\ file' = [file EXCEPT !.data =
                                NativeResize(set_file_size_call(FileSize, cp.size),
                                             file.data, cp.size)]
                 /\ handles' = Append(handles, NewHandle(cp.fd, TRUE))
                 /\ last' = [Outcome("create_preallocated", TRUE, "", "")
                               EXCEPT !.fd = cp.fd, !.size = cp.size]
                 /\ cp' = IdleCp
            ELSE /\ cp' = [cp EXCEPT !.pc = "failed",
                                     !.err = set_file_size_error(call, code).err,
                                     !.code = set_file_size_error(call, code).code,
                                     !.call = call, !.reported = code]
                 /\ UNCHANGED <<file, handles, last>>
    /\ UNCHANGED <<envVars, threads, granCache, fds, mapObjs, regions, maps>>

\* (fault) a failure branch that returns without closing
Cp_close_leak ==
    /\ cp.pc = "failed"
    /\ cp' = [cp EXCEPT !.pc = "return_err"]
    /\ UNCHANGED <<envVars, threads, granCache, file, fds, handles, mapObjs, regions, maps, last>>
\* the failure branch: close(fd) / CloseHandle(handle) ...
Cp_close ==
    /\ cp.pc = "failed"
    /\ fds' = close(fds, cp.fd)
    /\ cp' = [cp EXCEPT !.pc = "return_err"]
    /\ UNCHANGED <<envVars, threads, granCache, file, handles, mapObjs, regions, maps, last>>

\* ... then return Err(e)
Cp_return ==
    /\ cp.pc = "return_err"
    /\ last' = [Failed(Outcome("", FALSE, cp.err, cp.code),
                        "create_preallocated", cp.call, cp.reported)
                 EXCEPT !.fd = cp.fd, !.size = cp.size]
    /\ cp' = IdleCp
    /\ UNCHANGED <<envVars, threads, granCache, file, fds, handles, mapObjs, regions, maps>>

(* --------------------------- specifications --------------------------- *)
InitResources ==
    /\ granCache = 0
    /\ fds = <<>>
    /\ handles = <<>>
    /\ mapObjs = <<>>
    /\ regions = <<>>
    /\ maps = <<>>
    /\ cp = IdleCp
    /\ threads = [t \in Threads |-> IdleThread]
    /\ last = NoCall

\* handles, their owners and the mappings built on them
LifeOffsets == {1}
LifeLens == {0, 2}
PreallocSizes == {2, MaxFile}

Init ==
    /\ os \in {"linux", "windows"}
    /\ trim = FALSE
    /\ overflow_checks = FALSE
    /\ sysGran = Pow2(MaxShift)
    /\ file \in {[exists |-> FALSE, data |-> <<>>],
                 [exists |-> TRUE, data |-> InitialData(MaxFile)]}
    /\ InitResources

\* calls are synchronous: the caller makes its next call when the
\* create_preallocated in progress has returned
Idle == cp.pc = "idle"

DoOpen == Idle /\ Len(fds) < MaxHandles /\ \E rw \in BOOLEAN : Open(rw)
DoCloneRef == Idle /\ \E h \in 1..MaxHandles : CloneRef(h)
DoDropRef == Idle /\ \E h \in 1..MaxHandles : DropRef(h)
DoMmapNew ==
    Idle /\ \E h \in 1..MaxHandles, offset \in LifeOffsets, len \in LifeLens :
        Mmap_new(h, offset, len)
DoOwnedNew ==
    Idle /\ \E h \in 1..MaxHandles, offset \in LifeOffsets, len \in LifeLens, mv \in BOOLEAN :
        Owned_new(h, offset, len, mv)
DoOwnedHandle == Idle /\ \E k \in 1..MaxMaps : Owned_handle(k)
DoMmapDrop == Idle /\ \E k \in 1..MaxMaps : Mmap_drop(k)
DoOwnedDropHandle == Idle /\ \E k \in 1..MaxMaps : Owned_drop_handle(k)
DoOwnedDropMmap == Idle /\ \E k \in 1..MaxMaps : Owned_drop_mmap(k)
DoCpOpen == \E size \in PreallocSizes : Cp_open(size)

Next ==
    \/ DoOpen
    \/ DoCloneRef
    \/ DoDropRef
    \/ DoMmapNew
    \/ DoOwnedNew
    \/ DoOwnedHandle
    \/ DoMmapDrop
    \/ DoOwnedDropHandle
    \/ DoOwnedDropMmap
    \/ DoCpOpen
    \/ Cp_resize
    \/ Cp_close
    \/ Cp_return

Spec == Init /\ [][Next]_vars

\* one handle, one mapping at a time, every (offset, len)
MapFileSizes == {0, MaxFile}

InitMap ==
    /\ os \in {"linux", "windows"}
    /\ trim \in BOOLEAN
    /\ overflow_checks \in BOOLEAN
    /\ sysGran \in Granularities
    /\ file \in {[exists |-> TRUE, data |-> InitialData(n)] : n \in MapFileSizes}
    /\ InitResources

MapOpen == \E rw \in BOOLEAN : Len(handles) = 0 /\ Open(rw)
MapNew == \E offset \in Words, len \in Words : last.op = "open" /\ Mmap_new(1, offset, len)
MapDrop == Mmap_drop(1)

NextMap ==
    \/ MapOpen
    \/ MapNew
    \/ MapDrop

SpecMap == InitMap /\ [][NextMap]_vars

\* opening alone: open and create_preallocated on every build target, over a
\* file that is absent, smaller than, as large as or larger than the
\* requested size
ResizeFileSizes == {2, MaxFile}
ResizeSizes == {0, 2, 4}

InitResize ==
    /\ os \in OSes
    /\ trim = FALSE
    /\ overflow_checks = FALSE
    /\ sysGran = Pow2(MaxShift)
    /\ file \in {[exists |-> FALSE, data |-> <<>>]}
                 \cup {[exists |-> TRUE, data |-> InitialData(n)] : n \in ResizeFileSizes}
    /\ InitResources

ResizeOpen == Idle /\ Len(fds) < MaxHandles /\ \E rw \in BOOLEAN : Open(rw)
ResizeCpOpen == \E size \in ResizeSizes : Cp_open(size)

NextResize ==
    \/ ResizeOpen
    \/ ResizeCpOpen
    \/ Cp_resize
    \/ Cp_close
    \/ Cp_return

SpecResize == InitResize /\ [][NextResize]_vars

(* ------------------------------ reading ------------------------------- *)
\* what the process reads at an address: the file byte behind the mapped
\* region that covers it, or a fault
FAULT == -1
Mem(addr) ==
    LET rs == {r \in 1..Len(regions) :
                 /\ regions[r].mapped
                 /\ regions[r].base <= addr
                 /\ addr < regions[r].base + regions[r].len}
    IN  IF rs = {} THEN FAULT
        ELSE LET r == CHOOSE x \in rs : TRUE
             IN FileByte(regions[r].foff + (addr - regions[r].base))

\* as_slice()[i]: from_raw_parts(self.data(), self.len())
ViewByte(m, i) == Mem(Mmap_data(m) + i)

LiveMaps == {k \in 1..Len(maps) : maps[k].st = "live"}

(* ------------------------------- views -------------------------------- *)
\* (fault) a byte view over the whole native mapping, padding included
Mmap_as_slice_whole(m) == [base |-> m.ptr, len |-> m.length]
\* as_slice: from_raw_parts(self.data(), self.len()); a writer takes
\* from_raw_parts_mut(mapping.data(), mapping.len())
Mmap_as_slice(m) == [base |-> Mmap_data(m), len |-> Mmap_len(m)]

\* the file offset behind an address of a MAP_SHARED region, or FAULT
Backing(addr) ==
    LET rs == {r \in 1..Len(regions) :
                 /\ regions[r].mapped
                 /\ regions[r].base <= addr
                 /\ addr < regions[r].base + regions[r].len}
    IN  IF rs = {} THEN FAULT
        ELSE LET r == CHOOSE x \in rs : TRUE
             IN regions[r].foff + (addr - regions[r].base)

\* view[i] = b through the byte view of a live read-write mapping: a store
\* to a shared mapping reaches the file where the file has that byte
Mmap_write(k, i, b) ==
    /\ k \in 1..Len(maps)
    /\ maps[k].st = "live"
    /\ handles[maps[k].h].rw
    /\ i < Mmap_as_slice(maps[k]).len
    /\ LET p == Backing(Mmap_as_slice(maps[k]).base + i)
       IN  /\ p # FAULT
           /\ file' = IF p < FileSize THEN [file EXCEPT !.data[p + 1] = b] ELSE file
    /\ last' = [Outcome("write", TRUE, "", "") EXCEPT !.m = k, !.off = i, !.byte = b]
    /\ UNCHANGED <<envVars, threads, granCache, fds, handles, mapObjs, regions, maps, cp>>

\* let s = mapping.as_slice()
As_slice(k) ==
    /\ k \in 1..Len(maps)
    /\ maps[k].st = "live"
    /\ maps[k].slices = 0
    /\ maps' = [maps EXCEPT ![k].slices = 1]
    /\ UNCHANGED <<envVars, threads, granCache, file, fds, handles, mapObjs, regions, cp, last>>

\* s[i], for a slice the caller holds
Slice_read(k, i) ==
    /\ k \in 1..Len(maps)
    /\ maps[k].slices > 0
    /\ i < Mmap_as_slice(maps[k]).len
    /\ last' = [Outcome("slice_read", TRUE, "", "")
                  EXCEPT !.m = k, !.off = i,
                         !.byte = Mem(Mmap_as_slice(maps[k]).base + i)]
    /\ UNCHANGED <<envVars, threads, granCache, file, fds, handles, mapObjs, regions, maps, cp>>

\* the slice goes out of scope
Slice_drop(k) ==
    /\ k \in 1..Len(maps)
    /\ maps[k].slices > 0
    /\ maps' = [maps EXCEPT ![k].slices = 0]
    /\ UNCHANGED <<envVars, threads, granCache, file, fds, handles, mapObjs, regions, cp, last>>

\* MemoryAdvice: WILL_NEED | SEQUENTIAL | RANDOM, any union of them
MemoryAdvice == SUBSET {"WILL_NEED", "SEQUENTIAL", "RANDOM"}

\* advise_memory(addr, len, advice): one madvise per flag set on Unix; on
\* Windows PrefetchVirtualMemory for WILL_NEED, the other flags are ignored
advise_memory(addr, len, advice) ==
    {[flag |-> f, addr |-> addr, len |-> len] :
        f \in IF os \in Unix THEN advice ELSE advice \cap {"WILL_NEED"}}

\* (fault) advise without the is_empty test
Mmap_advise_calls_unguarded(m, advice) == advise_memory(m.ptr, m.length, advice)
\* advise: if !self.is_empty() { advise_memory(self.inner.data(), self.length, advice) }
Mmap_advise_calls(m, advice) ==
    IF ~Mmap_is_empty(m) THEN advise_memory(m.ptr, m.length, advice) ELSE {}

\* ReadOnlyMmap::advise / ReadWriteMmap::advise; the hints' results are ignored
Mmap_advise(k, advice) ==
    /\ k \in 1..Len(maps)
    /\ maps[k].st = "live"
    /\ last' = [Outcome("advise", TRUE, "", "")
                  EXCEPT !.m = k, !.flags = advice,
                         !.hints = Mmap_advise_calls(maps[k], advice)]
    /\ UNCHANGED <<envVars, threads, granCache, file, fds, handles, mapObjs, regions, maps, cp>>

\* one read-write handle, mappings over two disjoint ranges, stores
WriteOffsets == {1, 4}
WriteLens == {2}
WriteBytes == {201, 202}

InitWrite ==
    /\ os \in {"linux", "windows"}
    /\ trim = FALSE
    /\ overflow_checks = FALSE
    /\ sysGran = Pow2(MaxShift)
    /\ file = [exists |-> TRUE, data |-> InitialData(MaxFile)]
    /\ InitResources

NextWrite ==
    \/ Len(handles) = 0 /\ Open(TRUE)
    \/ \E offset \in WriteOffsets, len \in WriteLens : Mmap_new(1, offset, len)
    \/ \E k \in 1..MaxMaps, i \in 0..MaxFile, b \in WriteBytes : Mmap_write(k, i, b)
    \/ \E k \in 1..MaxMaps : Mmap_drop(k)

SpecWrite == InitWrite /\ [][NextWrite]_vars

\* a handle of either kind, a borrowed or owned mapping, slices taken from
\* it, read and let go, in every order the borrow checker accepts
InitSlice ==
    /\ os \in {"linux", "windows"}
    /\ trim = FALSE
    /\ overflow_checks = FALSE
    /\ sysGran = Pow2(MaxShift)
    /\ file = [exists |-> TRUE, data |-> InitialData(MaxFile)]
    /\ InitResources

DoAsSlice == \E k \in 1..MaxMaps : As_slice(k)
DoSliceRead == \E k \in 1..MaxMaps, i \in 0..MaxFile : Slice_read(k, i)
DoSliceDrop == \E k \in 1..MaxMaps : Slice_drop(k)

NextSlice ==
    \/ DoOpen
    \/ DoDropRef
    \/ DoMmapNew
    \/ DoOwnedNew
    \/ DoMmapDrop
    \/ DoOwnedDropHandle
    \/ DoOwnedDropMmap
    \/ DoAsSlice
    \/ DoSliceRead
    \/ DoSliceDrop

SpecSlice == InitSlice /\ [][NextSlice]_vars

\* one handle, empty and non-empty mappings, advice in every combination
AdviseOffsets == {0, 1}
AdviseLens == {0, 2}

NextAdvise ==
    \/ \E rw \in BOOLEAN : Len(handles) = 0 /\ Open(rw)
    \/ \E offset \in AdviseOffsets, len \in AdviseLens : Mmap_new(1, offset, len)
    \/ \E k \in 1..MaxMaps, advice \in MemoryAdvice : Mmap_advise(k, advice)
    \/ \E k \in 1..MaxMaps : Mmap_drop(k)

SpecAdvise == InitSlice /\ [][NextAdvise]_vars

\* Windows: views created on a handle, borrowed and owned, and everything
\* dropped in every order the borrow checker accepts
InitView ==
    /\ os = "windows"
    /\ trim = FALSE
    /\ overflow_checks = FALSE
    /\ sysGran = Pow2(MaxShift)
    /\ file = [exists |-> TRUE, data |-> InitialData(MaxFile)]
    /\ InitResources

ViewOwnedNew ==
    \E h \in 1..MaxHandles, mv \in BOOLEAN : Owned_new(h, 1, 2, mv)

NextView ==
    \/ DoOpen
    \/ DoDropRef
    \/ DoMmapNew
    \/ ViewOwnedNew
    \/ DoMmapDrop
    \/ DoOwnedDropHandle
    \/ DoOwnedDropMmap

SpecView == InitView /\ [][NextView]_vars

\* mappings constructed, cloned and dropped

NextClone ==
    \/ \E rw \in BOOLEAN : Len(handles) = 0 /\ Open(rw)
    \/ \E offset \in {0, 1}, len \in {0, 2} : Mmap_new(1, offset, len)
    \/ \E k \in 1..MaxMaps : Mmap_clone(k)
    \/ \E k \in 1..MaxMaps : Mmap_drop(k)

SpecClone == InitSlice /\ [][NextClone]_vars

\* Windows: threads that share one handle through Arc create views at the
\* same time; the mappings and the handle are dropped afterwards

NextRace ==
    \/ Len(handles) = 0 /\ \E rw \in BOOLEAN : Open(rw)
    \/ \E t \in Threads : View_begin(t, 1, 1, 2)
    \/ \E t \in Threads : View_check(t)
    \/ \E t \in Threads : View_create(t)
    \/ \E t \in Threads : View_store(t)
    \/ \E t \in Threads : View_map(t, 1, 2)
    \/ DoDropRef
    \/ DoOwnedDropHandle
    \/ DoOwnedDropMmap

SpecRace == InitView /\ [][NextRace]_vars

\* the same file opened more than once, the handles dropped in any order
InitTwice ==
    /\ os \in OSes
    /\ trim = FALSE
    /\ overflow_checks = FALSE
    /\ sysGran = Pow2(MaxShift)
    /\ file = [exists |-> TRUE, data |-> InitialData(MaxFile)]
    /\ InitResources

NextTwice ==
    \/ Len(fds) < MaxOpens /\ \E rw \in BOOLEAN : Open(rw)
    \/ \E h \in 1..MaxOpens : DropRef(h)

SpecTwice == InitTwice /\ [][NextTwice]_vars

\* bare handles, moved between threads and lent to scoped threads

NextThreads ==
    \/ Len(fds) < MaxOpens /\ \E rw \in BOOLEAN : Open(rw)
    \/ \E h \in 1..MaxOpens, t \in Threads : Handle_send(h, t)
    \/ \E h \in 1..MaxOpens, t \in Threads : Handle_share(h, t)
    \/ \E h \in 1..MaxOpens, t \in Threads : Handle_unshare(h, t)
    \/ \E h \in 1..MaxOpens : Sharers(h) = {} /\ DropRef(h)

SpecThreads == InitTwice /\ [][NextThreads]_vars

\* threads calling get_allocation_granularity, interleaved at every step
InitGran ==
    /\ os \in OSes
    /\ trim = FALSE
    /\ overflow_checks = FALSE
    /\ sysGran \in Granularities
    /\ file = [exists |-> TRUE, data |-> InitialData(MaxFile)]
    /\ InitResources

NextGran ==
    \/ \E t \in Threads : Gran_load(t)
    \/ \E t \in Threads : Gran_query(t)
    \/ \E t \in Threads : Gran_store(t)
    \/ \E t \in Threads : Gran_return(t)

SpecGran == InitGran /\ [][NextGran]_vars

(* ------------------------------- claims ------------------------------- *)
\* C1: a mapping created at (offset, len), len > 0 and offset + len within
\* the file, shows file byte offset + i at view byte i, for every i < len,
\* whether or not offset is aligned.
C1_ViewEqualsFile ==
    \A k \in LiveMaps :
        (maps[k].req > 0 /\ maps[k].off + maps[k].req <= FileSize)
        => \A i \in 0..(maps[k].req - 1) :
               ViewByte(maps[k], i) = file.data[maps[k].off + i + 1]

C1_Witness ==
    \E k \in LiveMaps :
        /\ maps[k].req > 1
        /\ maps[k].off % sysGran # 0
        /\ maps[k].off + maps[k].req <= FileSize
        /\ ViewByte(maps[k], 1) = InitialByte(maps[k].off + 1)

\* C2: without the trimming policy, a created mapping with requested
\* len > 0 reports len() = len, aligned offset or not.
C2_LenIsRequested ==
    ~trim => \A k \in 1..Len(maps) : maps[k].req > 0 => Mmap_len(maps[k]) = maps[k].req

C2_Witness ==
    /\ ~trim
    /\ \E k \in LiveMaps :
          /\ maps[k].req > 0
          /\ maps[k].offset_adjustment > 0
          /\ maps[k].length > maps[k].req
          /\ Mmap_len(maps[k]) = maps[k].req

\* C3: with a power-of-two granularity g, the aligned offset is a multiple
\* of g, is at most the offset, and the adjustment offset - aligned_offset
\* lies in [0, g).
C3_Alignment ==
    (last.op = "mmap_new" /\ last.aligning) =>
        /\ last.aligned % granCache = 0
        /\ last.aligned <= last.off
        /\ last.adj = last.off - last.aligned
        /\ 0 <= last.adj /\ last.adj < granCache

C3_Witness ==
    /\ last.op = "mmap_new" /\ last.aligning
    /\ granCache > 1
    /\ last.adj > 0
    /\ last.aligned > 0

\* C4: constructing a mapping with len = 0 succeeds for every handle and
\* offset, issues no native mapping call, and gives a mapping with
\* len() = 0, offset_adjustment = 0 and is_empty().
C4_EmptyAlwaysSucceeds ==
    (last.op = "mmap_new" /\ last.len = 0) =>
        /\ last.ok
        /\ last.calls = 0
        /\ Mmap_len(maps[last.m]) = 0
        /\ maps[last.m].offset_adjustment = 0
        /\ Mmap_is_empty(maps[last.m])

\* C5: the data pointer of every zero-length mapping is null, on both
\* platform backends.
C5_EmptyDataIsNull ==
    \A k \in 1..Len(maps) : Mmap_len(maps[k]) = 0 => Mmap_data(maps[k]) = NULL

\* owners of handle h: the references the caller holds and the live Owned Mappings
LiveOwned(h) == {k \in 1..Len(maps) : maps[k].h = h /\ maps[k].owned /\ maps[k].st = "live"}
Owners(h) == handles[h].refs + Cardinality(LiveOwned(h))
FdOfHandle(fd) == {h \in 1..Len(handles) : handles[h].fd = fd}
InFlight(fd) == cp.fd = fd /\ cp.pc \in {"resize", "failed"}

\* C6: the native mapping of an Owned Mapping is unmapped before the
\* descriptor of its handle is closed: no native region is still mapped
\* while the descriptor it was built from is closed.
C6_UnmapBeforeClose ==
    \A r \in 1..Len(regions) : regions[r].mapped => fds[regions[r].fd].open

\* C7: the descriptor of a shared handle stays open as long as one owner
\* (a handle reference or an Owned Mapping) exists, whatever the order in
\* which the owners are created, cloned and dropped.
C7_OpenWhileOwned ==
    \A h \in 1..Len(handles) :
        Owners(h) >= 1 => (handles[h].alive /\ fds[handles[h].fd].open)

C7_Witness ==
    \E h \in 1..Len(handles) :
        /\ handles[h].refs = 0
        /\ \E k \in LiveOwned(h) : maps[k].region # 0 /\ regions[maps[k].region].mapped
        /\ \E k \in 1..Len(maps) : maps[k].h = h /\ maps[k].owned /\ maps[k].st = "dropped"
        /\ fds[handles[h].fd].open

\* C8: the descriptor of a handle is not closed while a borrowed mapping
\* created from the handle exists.
C8_OpenWhileBorrowed ==
    \A h \in 1..Len(handles) :
        LiveBorrowed(h) # {} => (handles[h].alive /\ fds[handles[h].fd].open)

C8_Witness ==
    \E h \in 1..Len(handles) :
        /\ \E k \in LiveBorrowed(h) : maps[k].region # 0
        /\ \E k \in 1..Len(maps) : maps[k].h = h /\ maps[k].owned /\ maps[k].st = "dropped"
        /\ handles[h].refs = 1 /\ handles[h].strong = 1
        /\ fds[handles[h].fd].open

\* C9: a descriptor a successful open returned is closed exactly once: not
\* while its handle has an owner, once when the last owner has gone (or
\* create_preallocated has given it up), and never a second time.
C9_ClosedExactlyOnce ==
    \A fd \in 1..Len(fds) :
        LET held == InFlight(fd) \/ \E h \in FdOfHandle(fd) : handles[h].alive
        IN  /\ fds[fd].closes = (IF held THEN 0 ELSE 1)
            /\ fds[fd].open = held

C9_Witness ==
    \E h \in 1..Len(handles) :
        /\ ~handles[h].alive
        /\ fds[handles[h].fd].closes = 1
        /\ \E k \in 1..Len(maps) : maps[k].h = h /\ maps[k].owned /\ maps[k].st = "dropped"

\* C10: when the resize step of create_preallocated fails, the descriptor
\* is closed before the error is returned, and no failed open or
\* create_preallocated leaves a descriptor open.
C10_NoLeakOnFailure ==
    /\ cp.pc = "return_err" => ~fds[cp.fd].open
    /\ (last.op \in {"open", "create_preallocated"} /\ ~last.ok) =>
           /\ last.fd # 0 => ~fds[last.fd].open
           /\ \A fd \in 1..Len(fds) :
                  fds[fd].open => (InFlight(fd) \/ \E h \in FdOfHandle(fd) : handles[h].alive)

C10_Witness ==
    /\ last.op = "create_preallocated" /\ ~last.ok
    /\ last.err = "FailedToSetFileSize"
    /\ last.fd # 0
    /\ fds[last.fd].closes = 1

\* C11: after a successful create_preallocated(path, size) the file exists
\* and is exactly size bytes long, whether it was absent, smaller, as large
\* or larger before.
C11_SizeIsExact ==
    (last.op = "create_preallocated" /\ last.ok) =>
        (file.exists /\ FileSize = last.size)

C11_Witness ==
    /\ last.op = "create_preallocated" /\ last.ok
    /\ FileSize = last.size
    /\ FileSize > 0
    /\ file.data[1] = InitialByte(0)
    /\ file.data[FileSize] = 0

\* C12: create_preallocated(path, size) on an existing file of old_size
\* bytes leaves the first min(old_size, size) bytes as they were: opening
\* changes nothing and the resize keeps the common prefix.
C12_PrefixKept ==
    [][/\ (cp.pc = "idle" /\ cp'.pc = "resize" /\ file.exists) => file' = file
       /\ (cp.pc = "resize" /\ cp'.pc = "idle") =>
              \A i \in 1..(IF FileSize < cp.size THEN FileSize ELSE cp.size) :
                  file'.data[i] = file.data[i]]_vars

C12_Witness ==
    /\ last.op = "create_preallocated" /\ last.ok
    /\ FileSize = last.size
    /\ \E n \in ResizeFileSizes : FileSize > 0 /\ FileSize < n
    /\ \A i \in 1..FileSize : file.data[i] = InitialByte(i - 1)
    /\ \A n \in ResizeFileSizes : FileSize # n

\* C13: when the space-reserving primitive reports that it is unsupported,
\* growing falls back to truncate-extend: create_preallocated succeeds and
\* the file has the requested size.
C13_UnsupportedFallsBack ==
    (/\ last.op = "create_preallocated"
     /\ last.call \in {"fallocate", "posix_fallocate"}
     /\ last.reported = "EOPNOTSUPP")
    => (last.ok /\ FileSize = last.size)

\* C14: whichever native call of the resize step fails, create_preallocated
\* returns FailedToSetFileSize carrying the code that call reported.
C14_ResizeErrorKind ==
    (last.op = "create_preallocated" /\ last.call \notin {"", "open"}) =>
        /\ ~last.ok
        /\ last.err = "FailedToSetFileSize"
        /\ last.code = last.reported

\* C15 as stated: under the trimming policy a mapping requested at
\* (offset, len) on a file of size S shows min(len, S - offset) bytes when
\* offset < S and is empty when offset >= S, and offset + visible length
\* never exceeds S.
C15_TrimOriginal ==
    (trim /\ last.op = "mmap_new" /\ last.ok) =>
        LET visible == Mmap_len(maps[last.m])
            remaining == FileSize - last.off
        IN  /\ last.off < FileSize =>
                   visible = (IF last.len < remaining THEN last.len ELSE remaining)
            /\ last.off >= FileSize => (visible = 0 /\ Mmap_is_empty(maps[last.m]))
            /\ last.off + visible <= FileSize

\* C15: under the trimming policy a mapping requested at (offset, len) on a
\* file of size S shows min(len, S - offset) bytes when offset < S and is
\* empty when offset >= S; a non-empty view ends at or before S.
C15_TrimVisible ==
    (trim /\ last.op = "mmap_new" /\ last.ok) =>
        LET visible == Mmap_len(maps[last.m])
            remaining == FileSize - last.off
        IN  /\ last.off < FileSize =>
                   visible = (IF last.len < remaining THEN last.len ELSE remaining)
            /\ last.off >= FileSize => (visible = 0 /\ Mmap_is_empty(maps[last.m]))
            /\ visible > 0 => last.off + visible <= FileSize

C15_Witness ==
    /\ trim /\ last.op = "mmap_new" /\ last.ok
    /\ last.off < FileSize
    /\ last.len > FileSize - last.off
    /\ last.adj > 0
    /\ Mmap_len(maps[last.m]) = FileSize - last.off

\* C16: under the trimming policy, when the size query fails the
\* constructor returns FailedToGetFileSize, makes no native mapping call
\* and creates nothing.
C16_SizeQueryFailure ==
    (last.op = "mmap_new" /\ last.call = "get_file_size") =>
        /\ ~last.ok
        /\ last.err = "FailedToGetFileSize"
        /\ last.calls = 0
        /\ Len(regions) = 0 /\ Len(mapObjs) = 0 /\ Len(maps) = 0

C16_Witness ==
    /\ trim
    /\ last.op = "mmap_new" /\ last.call = "get_file_size"
    /\ last.len > 0 /\ last.off < FileSize
    /\ last.err = "FailedToGetFileSize"
    /\ last.calls = 0

\* C17: a store through the byte view of a read-write mapping created at
\* (offset, len) lands inside [offset, offset + len) and changes that one
\* file byte only: the file keeps its size, every other byte (alignment
\* padding before offset included) is as before, every other live mapping
\* over a disjoint range shows what it showed, and the stored byte is what
\* the file now holds.
C17_WriteFrame ==
    [][(last' # last /\ last'.op = "write") =>
          LET m == maps[last'.m]
              p == m.off + last'.off
          IN  /\ last'.off < m.req
              /\ Len(file'.data) = Len(file.data)
              /\ \A q \in 0..(FileSize - 1) :
                     q # p => file'.data[q + 1] = file.data[q + 1]
              /\ p < FileSize => file'.data[p + 1] = last'.byte
              /\ \A j \in LiveMaps \ {last'.m} :
                     (maps[j].off + maps[j].req <= m.off \/ m.off + m.req <= maps[j].off)
                     => \A i \in 0..(Mmap_len(maps[j]) - 1) :
                            ViewByte(maps[j], i)' = ViewByte(maps[j], i)]_vars

C17_Witness ==
    /\ last.op = "write"
    /\ \E j, k \in LiveMaps :
          /\ maps[j].off + maps[j].req <= maps[k].off
          /\ maps[j].offset_adjustment > 0
          /\ \A i \in 0..(maps[j].req - 1) : FileByte(maps[j].off + i) = 201
          /\ \A i \in 0..(maps[k].req - 1) : FileByte(maps[k].off + i) = 202
          /\ \A q \in 0..(FileSize - 1) :
                 (q < maps[j].off \/ (maps[j].off + maps[j].req <= q /\ q < maps[k].off))
                 => FileByte(q) = InitialByte(q)

\* C18: a slice that ReadWriteMmap::as_slice returned is never read after
\* the mapping it came from has been dropped: every read through a slice
\* finds mapped memory.
C18_SliceWithinMapping ==
    last.op = "slice_read" => last.byte # FAULT

\* C19: when the native open fails, open and create_preallocated return
\* FailedToOpenFileHandle carrying the code the call reported; the step
\* adds no descriptor and no handle, and starts no resize.
C19_OpenFailure ==
    [][(last' # last /\ last'.call = "open") =>
          /\ last'.op \in {"open", "create_preallocated"}
          /\ ~last'.ok
          /\ last'.err = "FailedToOpenFileHandle"
          /\ last'.code = last'.reported /\ last'.reported \in OpenErrnos
          /\ last'.fd = 0
          /\ fds' = fds /\ handles' = handles /\ cp' = cp]_vars

C19_Witness ==
    /\ last.op = "create_preallocated" /\ last.call = "open"
    /\ last.err = "FailedToOpenFileHandle"
    /\ last.code = "EACCES"
    /\ \A fd \in 1..Len(fds) : ~fds[fd].open

\* C20: when the native mapping call returns its failure value, the
\* constructor returns FailedToMapMemory carrying the code the call
\* reported and creates no mapping object and no region; a region is only
\* ever unmapped by the drop of a mapping object built on it, so nothing is
\* unmapped for the failed attempt.
C20_MapFailure ==
    [][/\ (last' # last /\ last'.call \in {"mmap", "MapViewOfFile"}) =>
              /\ last'.op = "mmap_new" /\ ~last'.ok
              /\ last'.err = "FailedToMapMemory"
              /\ last'.code = last'.reported /\ last'.reported \in MapErrnos
              /\ last'.calls >= 1
              /\ maps' = maps /\ regions' = regions
       /\ \A r \in 1..Len(regions) :
              regions'[r].unmaps # regions[r].unmaps =>
                  \E k \in 1..Len(maps) :
                      /\ maps[k].region = r
                      /\ maps[k].st # "dropped" /\ maps'[k].st = "dropped"]_vars

C20_Witness ==
    /\ last.op = "mmap_new" /\ last.call \in {"mmap", "MapViewOfFile"}
    /\ last.err = "FailedToMapMemory" /\ last.code \in MapErrnos
    /\ last.adj > 0
    /\ \E k \in 1..Len(maps) : maps[k].st = "dropped" /\ maps[k].unmaps = 1
    /\ \A r \in 1..Len(regions) : regions[r].unmaps <= 1

\* C21: advise(flags) on an empty mapping issues no native hint call,
\* whatever the flags; on a non-empty mapping every hint call issued is for
\* a flag that is set and covers the whole native region (base pointer,
\* adjusted length); advise changes no mapping and no region.
C21_AdviseFrame ==
    [][(last' # last /\ last'.op = "advise") =>
          LET m == maps[last'.m]
          IN  /\ Mmap_is_empty(m) => last'.hints = {}
              /\ \A h \in last'.hints :
                     /\ h.flag \in last'.flags
                     /\ h.addr = m.ptr /\ h.len = m.length
                     /\ m.region # 0
                     /\ h.addr = regions[m.region].base /\ h.len = regions[m.region].len
              /\ maps' = maps /\ regions' = regions /\ file' = file]_vars

C21_Witness ==
    /\ last.op = "advise"
    /\ last.flags = {"WILL_NEED", "RANDOM"}
    /\ maps[last.m].offset_adjustment > 0
    /\ last.hints # {}
    /\ \E k \in LiveMaps : Mmap_is_empty(maps[k])

\* C22: the file can be opened again while a handle of it is open: no open
\* fails because of a handle that exists, and the handles that exist at the
\* same time each hold a valid native descriptor of their own that is open.
C22_OpenTwice ==
    /\ last.op = "open" => last.reported # "ERROR_SHARING_VIOLATION"
    /\ \A h \in 1..Len(handles) :
           handles[h].alive =>
               /\ handles[h].fd # INVALID_HANDLE_VALUE /\ handles[h].fd >= 1
               /\ fds[handles[h].fd].open
               /\ \A g \in 1..Len(handles) :
                      (handles[g].alive /\ g # h) => handles[g].fd # handles[h].fd

C22_Witness ==
    /\ last.op = "open" /\ last.ok
    /\ \E g, h \in 1..Len(handles) :
          /\ g # h
          /\ handles[g].alive /\ handles[h].alive
          /\ ~handles[g].rw /\ ~handles[h].rw
          /\ fds[handles[g].fd].open /\ fds[handles[h].fd].open

\* C23: a bare file handle can be moved to another thread, but at no time
\* do two threads hold access to the same bare handle.
C23_OneThreadAtATime ==
    \A h \in 1..Len(handles) :
        handles[h].alive => Cardinality(Accessors(h)) <= 1

\* C24: however the threads' calls of get_allocation_granularity interleave,
\* the cache holds 0 or the system's granularity G, a nonzero cache never
\* changes, and every call returns G.
C24_CacheStable ==
    [][/\ granCache' \in {0, sysGran}
       /\ granCache # 0 => granCache' = granCache
       /\ \A t \in Threads :
              (threads[t].pc # "done" /\ threads'[t].pc = "done") =>
                  threads'[t].ret = sysGran
       /\ (last' # last /\ last'.op = "get_allocation_granularity") =>
              last'.size = sysGran]_vars

\* a thread that loaded 0 is about to store after another thread has stored
C24_Witness ==
    /\ granCache = sysGran
    /\ \E t \in Threads : threads[t].pc = "store" /\ threads[t].cached = 0
    /\ last.op = "get_allocation_granularity" /\ last.size = sysGran

\* C25: dropping a zero-length mapping issues no native unmap call; an
\* unmap is issued on drop only for a mapping that holds a native region.
C25_EmptyDropIsSilent ==
    \A k \in 1..Len(maps) :
        /\ Mmap_is_empty(maps[k]) => maps[k].unmaps = 0
        /\ maps[k].unmaps > 0 => maps[k].region # 0

C27_CachedObjectClosedOnce ==
    os = "windows" =>
        /\ \A o \in 1..Len(mapObjs) :
              LET hd == handles[mapObjs[o].h]
              IN  /\ hd.mapping = o
                  /\ hd.alive => (mapObjs[o].open /\ mapObjs[o].closes = 0)
                  /\ ~hd.alive => /\ ~mapObjs[o].open
                                  /\ mapObjs[o].closes = 1
                                  /\ mapObjs[o].fileOpen
                                  /\ fds[hd.fd].closes = 1
        /\ \A h \in 1..Len(handles) :
              /\ handles[h].mapping = INVALID_HANDLE_VALUE =>
                     \A o \in 1..Len(mapObjs) : mapObjs[o].h # h
              /\ Cardinality({o \in 1..Len(mapObjs) : mapObjs[o].h = h}) <= 1

\* two views were created on one handle, which has since been dropped
C27_Witness ==
    /\ os = "windows"
    /\ \E j, k \in 1..Len(maps) :
          /\ j # k /\ maps[j].h = maps[k].h
          /\ maps[j].region # 0 /\ maps[k].region # 0
          /\ ~handles[maps[k].h].alive
          /\ handles[maps[k].h].mapping # INVALID_HANDLE_VALUE
          /\ mapObjs[handles[maps[k].h].mapping].closes = 1

\* C28: however mappings are constructed, cloned and dropped, no native
\* region is unmapped more than once, a region no mapping refers to any
\* longer has been unmapped once, and no surviving mapping object refers to
\* a region that is already unmapped.
C28_UnmappedOnce ==
    /\ \A r \in 1..Len(regions) :
          /\ regions[r].unmaps <= 1
          /\ (\A k \in 1..Len(maps) : maps[k].region = r => maps[k].st = "dropped")
                 => regions[r].unmaps = 1
    /\ \A k \in 1..Len(maps) :
          (maps[k].st = "live" /\ maps[k].region # 0) => regions[maps[k].region].mapped

\* C29: when threads sharing one file handle create their first non-empty
\* views at the same time on Windows, one file-mapping object is created
\* for the handle, and every mapping object created is closed once the
\* handle has been dropped.
C29_OneObjectNoLeak ==
    os = "windows" =>
        \A h \in 1..Len(handles) :
            /\ Cardinality({o \in 1..Len(mapObjs) : mapObjs[o].h = h}) <= 1
            /\ ~handles[h].alive =>
                   \A o \in 1..Len(mapObjs) : mapObjs[o].h = h => ~mapObjs[o].open

\* C30: for every len and offset the sum len + offset_adjustment fits the
\* machine word: the constructor does not panic, the native mapping is
\* requested with at least len bytes, and the native length is exactly the
\* length len() reports plus the offset adjustment.
C30_AdjustedLenFits ==
    (last.op = "mmap_new" /\ last.aligning) =>
        /\ last.err # "panic"
        /\ last.calls > 0 => last.adjusted >= last.adj
        /\ last.ok =>
               /\ maps[last.m].length >= Mmap_len(maps[last.m])
               /\ maps[last.m].length =
                      Mmap_len(maps[last.m]) + maps[last.m].offset_adjustment

====
